---------------------------- MODULE Spec2Model ----------------------------
(***************************************************************************)
(* Model of spoolman/main.py: the service bootstrap.                       *)
(*   - module level: data directory creation, logging setup, composition  *)
(*     of the FastAPI application (mounts, debug CORS middleware);         *)
(*   - get_connection_url: settings -> sqlalchemy URL;                     *)
(*   - startup: await setup_db(get_connection_url()), run by uvicorn       *)
(*     before it serves.                                                   *)
(* Optional values (Python None / a value) are sets: {} or {v}.            *)
(***************************************************************************)
EXTENDS Integers, Sequences, FiniteSets, TLC

VARIABLES
    environ,        \* the environment read through spoolman.env
    pc,             \* position of the process in main.py
    failedAt,       \* None, or the position whose statement raised
    dirExists,      \* data_dir exists on disk
    rootHandlers,   \* handlers of logging.getLogger("")
    loggerLevel,    \* level set on each logger (NOTSET = inherit)
    loggingInits,   \* executions of the logging setup block
    emitted,        \* logging calls made, in order
    fileLog,        \* entries written to spoolman.log
    consoleLog,     \* entries written to the console stream
    app,            \* the FastAPI application object
    url,            \* None, or the URL get_connection_url returned
    urlBuilds,      \* calls of get_connection_url
    setupDbCalls,   \* calls of setup_db
    dbReady         \* setup_db has returned normally

vars == <<environ, pc, failedAt, dirExists, rootHandlers, loggerLevel,
          loggingInits, emitted, fileLog, consoleLog, app, url, urlBuilds,
          setupDbCalls, dbReady>>

logVars == <<rootHandlers, loggerLevel, loggingInits>>
sinkVars == <<emitted, fileLog, consoleLog>>
dbVars == <<url, urlBuilds, setupDbCalls, dbReady>>

-----------------------------------------------------------------------------
(* Bounds *)

MaxInits == 2       \* executions of the logging setup block in LogSpec
MaxRecords == 2     \* records emitted by components in LogSpec

-----------------------------------------------------------------------------
(* Optional values *)

None == {}
Some(v) == {v}
Val(o) == CHOOSE v \in o : TRUE

-----------------------------------------------------------------------------
(* logging levels *)

NOTSET == 0
INFO == 20
WARNING == 30
LogLevels == {10, 20, 30, 40, 50}

(* env.get_logging_level(): the configured severity threshold *)
get_logging_level(e) == e.log_level

(* env.is_debug_mode() *)
is_debug_mode(e) == e.debug

-----------------------------------------------------------------------------
(* env.DatabaseType and its driver names *)

DatabaseType == {"postgres", "mysql", "sqlite", "cockroachdb"}
SQLITE == "sqlite"

to_drivername(t) ==
    CASE t = "postgres"    -> "postgresql+asyncpg"
      [] t = "mysql"       -> "mysql+aiomysql"
      [] t = "sqlite"      -> "sqlite+aiosqlite"
      [] t = "cockroachdb" -> "cockroachdb+asyncpg"

(* env.get_database_type(): None when unset, the variant when recognized,
   raises otherwise *)
get_database_type(e) ==
    IF e.db_type = None THEN [raised |-> FALSE, value |-> None]
    ELSE IF Val(e.db_type) \in DatabaseType
         THEN [raised |-> FALSE, value |-> e.db_type]
         ELSE [raised |-> TRUE, value |-> None]

get_host(e) == e.host
get_port(e) == e.port
get_database(e) == e.database
get_query(e) == e.query
get_username(e) == e.username
get_password(e) == e.password

-----------------------------------------------------------------------------
(* Values the settings are drawn from *)

EmptyQuery == [k \in {} |-> "x"]
Queries == { EmptyQuery,
             [k \in {"sslmode"} |-> "require"],
             [k \in {"sslmode", "charset"} |->
                 IF k = "sslmode" THEN "disable" ELSE "utf8"] }

Environments ==
    [ db_type   : {None} \cup {Some(t) : t \in DatabaseType \cup {"oracle"}},
      host      : {None, Some("db.example")},
      port      : {None, Some(5432)},
      database  : {None, Some(<<"spool">>)},
      query     : {None} \cup {Some(q) : q \in Queries},
      username  : {None, Some("admin")},
      password  : {None, Some("secret")},
      log_level : LogLevels,
      debug     : BOOLEAN,
      name      : {"spoolman.main", "__main__"} ]

-----------------------------------------------------------------------------
(* Paths: sequences of components *)

data_dir == <<"user_data_dir", "spoolman">>
joinpath(dir, name) == Append(dir, name)

-----------------------------------------------------------------------------
(* The logging library as main.py uses it *)

Root == "root"
LoggerNames == {Root, "spoolman", "spoolman.main", "spoolman.database",
                "__main__", "uvicorn"}

Parent(n) ==
    IF n \in {"spoolman.main", "spoolman.database"} THEN "spoolman" ELSE Root

RECURSIVE EffectiveLevel(_, _)
EffectiveLevel(levels, n) ==
    IF levels[n] # NOTSET THEN levels[n]
    ELSE IF n = Root THEN NOTSET
    ELSE EffectiveLevel(levels, Parent(n))

isEnabledFor(levels, n, level) == level >= EffectiveLevel(levels, n)

(* entries a record leaves in the sink of the given kind: one per handler
   of that kind whose level admits it *)
Written(handlers, kind, rec) ==
    LET hs == SelectSeq(handlers,
                        LAMBDA h : h.kind = kind /\ rec.level >= h.level)
    IN  [i \in 1..Len(hs) |-> [id |-> rec.id, fmt |-> hs[i].fmt]]

(* a call logger.log(level, msg) on the logger named n *)
LogCall(n, level, msg) ==
    LET rec == [id |-> Len(emitted) + 1, name |-> n, level |-> level,
                msg |-> msg]
    IN  /\ emitted' = Append(emitted, rec)
        /\ IF isEnabledFor(loggerLevel, n, level)
           THEN /\ fileLog' = fileLog \o Written(rootHandlers, "file", rec)
                /\ consoleLog' = consoleLog \o
                                     Written(rootHandlers, "console", rec)
           ELSE UNCHANGED <<fileLog, consoleLog>>

-----------------------------------------------------------------------------
(* sqlalchemy URL.create as get_connection_url calls it: every argument is
   kept as given, an absent one stays absent *)
URL_create(drivername, host, port, database, query, username, password) ==
    [ drivername |-> drivername,
      host       |-> host,
      port       |-> port,
      database   |-> database,
      query      |-> query,
      username   |-> username,
      password   |-> password ]

(* get_connection_url without the default location: the supplied database
   is kept when no type is set *)
get_connection_url_keepdb(e) ==
    LET t == get_database_type(e)
    IN  IF t.raised
        THEN [raised |-> TRUE, url |-> None, msg |-> "none"]
        ELSE [raised |-> FALSE,
              url    |-> Some(URL_create(
                            to_drivername(IF t.value = None THEN SQLITE
                                                            ELSE Val(t.value)),
                            get_host(e), get_port(e), get_database(e),
                            IF get_query(e) = None THEN EmptyQuery
                                                   ELSE Val(get_query(e)),
                            get_username(e), get_password(e))),
              msg    |-> IF t.value = None THEN "default_sqlite"
                                           ELSE "connecting"]

(* get_connection_url without the query argument *)
get_connection_url_noquery(e) ==
    LET t == get_database_type(e)
    IN  IF t.raised
        THEN [raised |-> TRUE, url |-> None, msg |-> "none"]
        ELSE [raised |-> FALSE,
              url    |-> Some(URL_create(
                            to_drivername(IF t.value = None THEN SQLITE
                                                            ELSE Val(t.value)),
                            get_host(e), get_port(e),
                            IF t.value = None
                            THEN Some(joinpath(data_dir, "spoolman.db"))
                            ELSE get_database(e),
                            EmptyQuery,
                            get_username(e), get_password(e))),
              msg    |-> IF t.value = None THEN "default_sqlite"
                                           ELSE "connecting"]

(* get_connection_url(): the URL it returns and the record it logs, or
   raised when env.get_database_type() raises *)
get_connection_url(e) ==
    LET t        == get_database_type(e)
        host     == get_host(e)
        port     == get_port(e)
        query    == get_query(e)
        username == get_username(e)
        password == get_password(e)
        db_type  == IF t.value = None THEN SQLITE ELSE Val(t.value)
        database == IF t.value = None
                    THEN Some(joinpath(data_dir, "spoolman.db"))
                    ELSE get_database(e)
    IN  IF t.raised
        THEN [raised |-> TRUE, url |-> None, msg |-> "none"]
        ELSE [raised |-> FALSE,
              url    |-> Some(URL_create(to_drivername(db_type), host, port,
                                         database,
                                         IF query = None THEN EmptyQuery
                                                         ELSE Val(query),
                                         username, password)),
              msg    |-> IF t.value = None THEN "default_sqlite"
                                           ELSE "connecting"]

-----------------------------------------------------------------------------
(* The application object *)

NoApp == [created |-> FALSE, debug |-> FALSE, mounts |-> <<>>,
          user_middleware |-> <<>>]

CORSMiddleware ==
    [ cls |-> "CORSMiddleware", allow_origins |-> "*",
      allow_credentials |-> TRUE, allow_methods |-> "*",
      allow_headers |-> "*" ]

CorsInstalled == \E i \in 1..Len(app.user_middleware) :
                     app.user_middleware[i] = CORSMiddleware

-----------------------------------------------------------------------------
(* State after the interpreter has started and before main.py runs *)

InitState ==
    /\ pc = "start"
    /\ failedAt = None
    /\ dirExists \in BOOLEAN
    /\ rootHandlers = <<>>
    /\ loggerLevel = [n \in LoggerNames |-> IF n = Root THEN WARNING
                                                      ELSE NOTSET]
    /\ loggingInits = 0
    /\ emitted = <<>>
    /\ fileLog = <<>>
    /\ consoleLog = <<>>
    /\ app = NoApp
    /\ url = None
    /\ urlBuilds = 0
    /\ setupDbCalls = 0
    /\ dbReady = FALSE

Init ==
    /\ environ \in Environments
    /\ InitState

Fail(at) ==
    /\ pc' = "failed"
    /\ failedAt' = Some(at)

-----------------------------------------------------------------------------
(* Module level of main.py *)

(* lines 18-19: data_dir.mkdir(parents=True, exist_ok=True) *)
DataDirMkdir ==
    /\ pc = "start"
    /\ \E ok \in BOOLEAN :
          IF ok \/ dirExists
          THEN /\ dirExists' = TRUE
               /\ pc' = "dir_ready"
               /\ UNCHANGED failedAt
          ELSE /\ Fail("mkdir")
               /\ UNCHANGED dirExists
    /\ UNCHANGED <<environ, logVars, sinkVars, app, dbVars>>

FileHandler == [kind |-> "file", level |-> NOTSET, fmt |-> "asctime"]
StreamHandler(level) == [kind |-> "console", level |-> level, fmt |-> "name"]

(* lines 22-27: basicConfig does nothing when the root logger already has
   handlers; otherwise it opens the file for writing and adds its handler *)
basicConfig(handlers) ==
    IF Len(handlers) = 0 THEN Append(handlers, FileHandler) ELSE handlers

(* lines 22-39: the handlers and levels the logging setup block leaves *)
LoggingSetup ==
    /\ rootHandlers' = Append(basicConfig(rootHandlers),
                              StreamHandler(get_logging_level(environ)))
    /\ loggerLevel' = [loggerLevel EXCEPT
                           !["spoolman"] = get_logging_level(environ)]
    /\ loggingInits' = loggingInits + 1
    /\ fileLog' = IF Len(rootHandlers) = 0 THEN <<>> ELSE fileLog

(* lines 21-42, at import *)
LoggingInit ==
    /\ pc = "dir_ready"
    /\ \E ok \in BOOLEAN :
          IF ok
          THEN /\ LoggingSetup
               /\ pc' = "logging_ready"
               /\ UNCHANGED failedAt
          ELSE /\ Fail("logging")
               /\ UNCHANGED <<logVars, fileLog>>
    /\ UNCHANGED <<environ, dirExists, emitted, consoleLog, app, dbVars>>

(* lines 45-47: FastAPI(debug=...), the two mounts; StaticFiles raises when
   its directory is missing *)
AppCreate ==
    /\ pc = "logging_ready"
    /\ \E ok \in BOOLEAN :
          IF ok
          THEN /\ app' = [created |-> TRUE,
                          debug |-> is_debug_mode(environ),
                          mounts |-> <<"/api/v1", "/">>,
                          user_middleware |-> <<>>]
               /\ pc' = "app_created"
               /\ UNCHANGED failedAt
          ELSE /\ Fail("mount")
               /\ UNCHANGED app
    /\ UNCHANGED <<environ, dirExists, logVars, sinkVars, dbVars>>

(* the debug branch entered whatever the debug setting *)
DebugWarning_always ==
    /\ pc = "app_created"
    /\ LogCall(environ.name, WARNING, "debug_all_origins")
    /\ pc' = "cors_pending"
    /\ UNCHANGED <<environ, failedAt, dirExists, logVars, app, dbVars>>

(* the debug branch without its warning *)
DebugWarning_silent ==
    /\ pc = "app_created"
    /\ pc' = IF is_debug_mode(environ) THEN "cors_pending" ELSE "composed"
    /\ UNCHANGED <<environ, failedAt, dirExists, logVars, sinkVars, app,
                   dbVars>>

(* lines 50-51: the debug branch is entered and logs its warning *)
DebugWarning ==
    /\ pc = "app_created"
    /\ IF is_debug_mode(environ)
       THEN /\ LogCall(environ.name, WARNING, "debug_all_origins")
            /\ pc' = "cors_pending"
       ELSE /\ pc' = "composed"
            /\ UNCHANGED sinkVars
    /\ UNCHANGED <<environ, failedAt, dirExists, logVars, app, dbVars>>

(* lines 53-59: app.add_middleware(CORSMiddleware, ...) *)
AddCorsMiddleware ==
    /\ pc = "cors_pending"
    /\ app' = [app EXCEPT !.user_middleware =
                              <<CORSMiddleware>> \o app.user_middleware]
    /\ pc' = "composed"
    /\ UNCHANGED <<environ, failedAt, dirExists, logVars, sinkVars, dbVars>>

(* lines 96-97: uvicorn.run(app, ...) begins the lifespan startup *)
UvicornRun ==
    /\ pc = "composed"
    /\ pc' = "startup"
    /\ UNCHANGED <<environ, failedAt, dirExists, logVars, sinkVars, app,
                   dbVars>>

-----------------------------------------------------------------------------
(* startup(): await setup_db(get_connection_url()) *)

(* startup going on to setup_db although get_connection_url raised *)
StartupBuildUrl_swallow ==
    /\ pc = "startup"
    /\ urlBuilds' = urlBuilds + 1
    /\ LET r == get_connection_url(environ)
       IN  /\ url' = r.url
           /\ IF r.raised THEN UNCHANGED sinkVars
                          ELSE LogCall(environ.name, INFO, r.msg)
           /\ pc' = "url_built"
           /\ UNCHANGED failedAt
    /\ UNCHANGED <<environ, dirExists, logVars, app, setupDbCalls, dbReady>>

(* line 93, the argument: get_connection_url() is evaluated first *)
StartupBuildUrl ==
    /\ pc = "startup"
    /\ urlBuilds' = urlBuilds + 1
    /\ LET r == get_connection_url(environ)
       IN  IF r.raised
           THEN /\ Fail("get_connection_url")
                /\ UNCHANGED <<url, sinkVars>>
           ELSE /\ url' = r.url
                /\ LogCall(environ.name, INFO, r.msg)
                /\ pc' = "url_built"
                /\ UNCHANGED failedAt
    /\ UNCHANGED <<environ, dirExists, logVars, app, setupDbCalls, dbReady>>

(* setup_db called without await: the handler returns at once *)
StartupCallSetupDb_noawait ==
    /\ pc = "url_built"
    /\ setupDbCalls' = setupDbCalls + 1
    /\ pc' = "db_ready"
    /\ UNCHANGED <<environ, failedAt, dirExists, logVars, sinkVars, app, url,
                   urlBuilds, dbReady>>

(* line 93: setup_db is called with the URL and the handler suspends *)
StartupCallSetupDb ==
    /\ pc = "url_built"
    /\ setupDbCalls' = setupDbCalls + 1
    /\ pc' = "awaiting_db"
    /\ UNCHANGED <<environ, failedAt, dirExists, logVars, sinkVars, app, url,
                   urlBuilds, dbReady>>

(* the await with setup_db's exception caught: startup returns normally *)
StartupAwaitSetupDb_caught ==
    /\ pc = "awaiting_db"
    /\ \E ok \in BOOLEAN :
          /\ dbReady' = ok
          /\ failedAt' = IF ok THEN failedAt ELSE Some("setup_db")
          /\ pc' = "db_ready"
    /\ UNCHANGED <<environ, dirExists, logVars, sinkVars, app, url, urlBuilds,
                   setupDbCalls>>

(* line 93: the await resumes, with setup_db's result or its exception *)
StartupAwaitSetupDb ==
    /\ pc = "awaiting_db"
    /\ \E ok \in BOOLEAN :
          IF ok
          THEN /\ dbReady' = TRUE
               /\ pc' = "db_ready"
               /\ UNCHANGED failedAt
          ELSE /\ Fail("setup_db")
               /\ UNCHANGED dbReady
    /\ UNCHANGED <<environ, dirExists, logVars, sinkVars, app, url, urlBuilds,
                   setupDbCalls>>

(* uvicorn serves once the startup handlers have returned *)
Serve ==
    /\ pc = "db_ready"
    /\ pc' = "serving"
    /\ UNCHANGED <<environ, failedAt, dirExists, logVars, sinkVars, app,
                   dbVars>>

(* the debug setting of the environment changes while the composed
   application lives *)
SetDebugEnv ==
    /\ pc \in {"composed", "startup", "url_built", "awaiting_db", "db_ready",
               "serving"}
    /\ \E b \in BOOLEAN :
          /\ b # environ.debug
          /\ environ' = [environ EXCEPT !.debug = b]
    /\ UNCHANGED <<pc, failedAt, dirExists, logVars, sinkVars, app, dbVars>>

Next ==
    \/ DataDirMkdir
    \/ LoggingInit
    \/ AppCreate
    \/ DebugWarning
    \/ AddCorsMiddleware
    \/ UvicornRun
    \/ StartupBuildUrl
    \/ StartupCallSetupDb
    \/ StartupAwaitSetupDb
    \/ Serve
    \/ SetDebugEnv

Spec == Init /\ [][Next]_vars

-----------------------------------------------------------------------------
(* The logging setup on its own: the block run again in the same process,
   and records logged by the components of the process *)

LogEnvironments ==
    { e \in Environments :
        /\ e.db_type = None /\ e.host = None /\ e.port = None
        /\ e.database = None /\ e.query = None /\ e.username = None
        /\ e.password = None /\ e.debug = FALSE }

LogInit ==
    /\ environ \in LogEnvironments
    /\ InitState

(* lines 21-42 executed again *)
ReLoggingInit ==
    /\ pc = "logging_ready"
    /\ loggingInits < MaxInits
    /\ LoggingSetup
    /\ UNCHANGED <<environ, pc, failedAt, dirExists, emitted, consoleLog, app,
                   dbVars>>

(* a component logs a record through its logger *)
EmitRecord ==
    /\ pc = "logging_ready"
    /\ Len(emitted) < MaxRecords
    /\ \E n \in LoggerNames, level \in LogLevels : LogCall(n, level, "record")
    /\ UNCHANGED <<environ, pc, failedAt, dirExists, logVars, app, dbVars>>

LogNext ==
    \/ DataDirMkdir
    \/ LoggingInit
    \/ ReLoggingInit
    \/ EmitRecord

LogSpec == LogInit /\ [][LogNext]_vars

-----------------------------------------------------------------------------
(* Properties *)

TypeUnset == environ.db_type = None
TypeRecognized == environ.db_type # None /\ Val(environ.db_type) \in DatabaseType
TypeUnrecognized ==
    environ.db_type # None /\ Val(environ.db_type) \notin DatabaseType

NoConfiguration ==
    /\ environ.db_type = None /\ environ.host = None /\ environ.port = None
    /\ environ.database = None /\ environ.query = None
    /\ environ.username = None /\ environ.password = None

(* C1: when the database type is absent, the descriptor carries no host,
   port, username or password, whatever was supplied. *)
C1_DefaultDropsAddress ==
    (TypeUnset /\ url # None) =>
        /\ Val(url).host = None
        /\ Val(url).port = None
        /\ Val(url).username = None
        /\ Val(url).password = None

(* C2: when the database type is absent, building the descriptor never
   fails, its driver is the SQLite one and its database is exactly
   <data_dir>/spoolman.db, whatever database was supplied; the startup can
   then go on to Serving. *)
C2_DefaultSqliteLocation ==
    TypeUnset =>
        /\ failedAt # Some("get_connection_url")
        /\ urlBuilds > 0 => url # None
        /\ url # None =>
              /\ Val(url).drivername = to_drivername(SQLITE)
              /\ Val(url).database =
                     Some(<<"user_data_dir", "spoolman", "spoolman.db">>)

C2_Witness ==
    /\ NoConfiguration
    /\ pc = "serving"
    /\ url # None
    /\ Val(url).database = Some(<<"user_data_dir", "spoolman", "spoolman.db">>)

(* C3: with a recognized database type set, the descriptor holds every
   supplied field with the supplied value, every supplied query key with
   its value and no other key, nothing for an absent field, and the driver
   name of the selected variant. *)
C3_ExplicitFieldsVerbatim ==
    (TypeRecognized /\ url # None) =>
        LET u == Val(url)
            q == IF environ.query = None THEN EmptyQuery
                                         ELSE Val(environ.query)
        IN  /\ u.host = environ.host
            /\ u.port = environ.port
            /\ u.database = environ.database
            /\ u.username = environ.username
            /\ u.password = environ.password
            /\ DOMAIN u.query = DOMAIN q
            /\ \A k \in DOMAIN q : u.query[k] = q[k]
            /\ u.drivername = to_drivername(Val(environ.db_type))

C3_Witness ==
    /\ TypeRecognized
    /\ Val(environ.db_type) # SQLITE
    /\ url # None
    /\ environ.host # None /\ environ.port = None
    /\ environ.password # None /\ environ.username = None
    /\ environ.query # None
    /\ Cardinality(DOMAIN Val(url).query) = 2

(* C4: with an unrecognized database type, building the descriptor fails
   and yields no descriptor, setup_db is never called and Serving is never
   reached. *)
C4_UnrecognizedTypeFailsFast ==
    TypeUnrecognized =>
        /\ url = None
        /\ setupDbCalls = 0
        /\ ~dbReady
        /\ pc \notin {"url_built", "awaiting_db", "db_ready", "serving"}
        /\ urlBuilds > 0 =>
              pc = "failed" /\ failedAt = Some("get_connection_url")

C4_Witness ==
    /\ TypeUnrecognized
    /\ urlBuilds = 1
    /\ pc = "failed"

(* what has run, by stage *)
LoggingRan == loggingInits > 0
ComposeRan == app.created
BuildRan == urlBuilds > 0
StorageRan == setupDbCalls > 0

(* C5: once a stage has failed nothing more happens: no later stage has
   run, none is run again, and Serving is not reached; Serving is reached
   only with the storage initialization completed and nothing failed. *)
C5_FailureIsFinal ==
    /\ [](/\ failedAt # None <=> pc = "failed"
          /\ pc = "serving" => dbReady /\ failedAt = None
          /\ failedAt = Some("mkdir") =>
                ~LoggingRan /\ ~ComposeRan /\ ~BuildRan /\ ~StorageRan
          /\ failedAt = Some("logging") =>
                ~LoggingRan /\ ~ComposeRan /\ ~BuildRan /\ ~StorageRan
          /\ failedAt = Some("mount") => ~BuildRan /\ ~StorageRan
          /\ failedAt = Some("get_connection_url") =>
                url = None /\ ~StorageRan
          /\ failedAt = Some("setup_db") => ~dbReady
          /\ loggingInits <= 1 /\ urlBuilds <= 1 /\ setupDbCalls <= 1)
    /\ [][pc = "failed" => UNCHANGED vars]_vars

C5_Witness ==
    /\ pc = "failed"
    /\ failedAt = Some("setup_db")
    /\ setupDbCalls = 1
    /\ ~dbReady

(* the application object is complete: lines 45-59 are behind *)
Composed == app.created /\ pc \notin {"app_created", "cors_pending"}

(* C6: the composed application has the permissive CORS middleware exactly
   when debug was true at composition, and that never changes afterwards,
   whatever the environment's debug setting becomes. *)
C6_CorsFixedAtComposition ==
    /\ [](Composed =>
            /\ CorsInstalled <=> app.debug
            /\ CorsInstalled => app.user_middleware = <<CORSMiddleware>>)
    /\ [][Composed => /\ Composed'
                      /\ CorsInstalled' <=> CorsInstalled
                      /\ app' = app]_vars

C6_Witness ==
    /\ Composed
    /\ CorsInstalled
    /\ ~environ.debug
    /\ pc = "serving"

Stage ==
    CASE pc \in {"start", "dir_ready"}                             -> 0
      [] pc \in {"logging_ready", "app_created", "cors_pending",
                 "composed", "startup"}                            -> 1
      [] pc \in {"url_built", "awaiting_db"}                       -> 2
      [] pc = "db_ready"                                           -> 3
      [] pc = "serving"                                            -> 4
      [] pc = "failed"                                             -> 5

(* C7: the stages Uninitialized (0), LoggingReady (1), ConnectionResolved
   (2), StorageInitialized (3), Serving (4) are passed one by one in that
   order, never backwards and never twice; each stage's work is complete
   when the stage is entered; the descriptor is built once; the awaited
   storage initialization has returned before Serving. *)
C7_StagesInOrder ==
    /\ [](/\ Stage \in 1..4 => loggingInits = 1
          /\ Stage = 0 => loggingInits = 0
          /\ Stage \in 2..4 => url # None /\ urlBuilds = 1
          /\ Stage \in 0..1 => url = None /\ urlBuilds = 0 /\ setupDbCalls = 0
          /\ Stage \in 3..4 => dbReady /\ setupDbCalls = 1
          /\ Stage \in 0..2 => ~dbReady
          /\ urlBuilds <= 1 /\ setupDbCalls <= 1 /\ loggingInits <= 1)
    /\ [][/\ Stage' # Stage => Stage # 5 /\ Stage' \in {Stage + 1, 5}
          /\ urlBuilds' >= urlBuilds
          /\ loggingInits' >= loggingInits
          /\ dbReady => dbReady']_vars

C7_Witness ==
    /\ pc = "serving"
    /\ loggingInits = 1 /\ urlBuilds = 1 /\ setupDbCalls = 1 /\ dbReady

InFile(i) == \E j \in 1..Len(fileLog) : fileLog[j].id = i
InConsole(i) == \E j \in 1..Len(consoleLog) : consoleLog[j].id = i

(* C8: every record emitted after the logging setup is in the file sink
   exactly when it is in the console sink, and that exactly when its level
   is at or above the configured threshold. *)
C8_SinksShareThreshold ==
    \A i \in 1..Len(emitted) :
        /\ InFile(i) <=> InConsole(i)
        /\ InFile(i) <=> emitted[i].level >= get_logging_level(environ)

WarningEmitted ==
    \E i \in 1..Len(emitted) :
        emitted[i].level = WARNING /\ emitted[i].msg = "debug_all_origins"

(* C9: the CORS middleware is installed only with the debug warning
   emitted; the warning is emitted, with the logging setup done and before
   the middleware is installed, in every run whose debug flag is true at
   composition, and in no run whose flag is false. *)
C9_CorsOnlyWithWarning ==
    /\ [](/\ CorsInstalled => WarningEmitted
          /\ WarningEmitted => LoggingRan
          /\ (app.created /\ pc # "app_created") =>
                (WarningEmitted <=> app.debug)
          /\ (~app.created \/ pc = "app_created") => ~WarningEmitted)
    /\ [][(WarningEmitted' /\ ~WarningEmitted) =>
              LoggingRan /\ ~CorsInstalled /\ ~CorsInstalled']_vars

C9_Witness ==
    /\ pc = "cors_pending"
    /\ WarningEmitted
    /\ ~CorsInstalled

Handlers(kind) == SelectSeq(rootHandlers, LAMBDA h : h.kind = kind)

(* C10: after the logging setup has run one or more times, the root logger
   has exactly one file sink and exactly one console sink. *)
C10_SetupIsIdempotent ==
    LoggingRan =>
        /\ Len(Handlers("file")) = 1
        /\ Len(Handlers("console")) = 1

=============================================================================
